---- MODULE Spec2Model ----
(***************************************************************************)
(* A model of the zstd-chunked reader library (src/src/lib.rs and          *)
(* src/src/format.rs): the footer codec, the OCI annotation codec, the     *)
(* Stream builder (new_from_frames) and the Stream driver (references,     *)
(* write_to).                                                              *)
(*                                                                         *)
(* Representation choices:                                                 *)
(*  - a byte is a number in 0..255, a byte slice a sequence of bytes;      *)
(*  - a u64 is kept as its 8 little-endian bytes (what zerocopy's U64 is), *)
(*    and u64 arithmetic is done limb by limb with carries, so that the    *)
(*    full 64-bit width (and its overflow) is kept;                        *)
(*  - a string is a sequence of one-character strings;                     *)
(*  - Option<T> is <<>> (None) or <<x>> (Some(x)).                         *)
(***************************************************************************)
EXTENDS Integers, Sequences, FiniteSets, TLC

VARIABLES
    \* how the inputs of the metadata codecs were put together (a record kept
    \* beside the inputs; no operation reads it)
    inputCase,
    \* footer codec: the input of MetadataReferences::from_footer and its outcome
    suffix, footerOut,
    \* annotation codec: the annotations behind `get` and the outcome of from_oci
    annot, ociOut,
    \* Stream builder: the two frames given to Stream::new_from_frames (what the
    \* zstd and JSON decoders make of them) and the outcome of the call
    manifestIn, tarsplitIn, built,
    \* Stream driver: the Stream, the caller's resolver (the bytes it returns
    \* for each reference) and whether the resolver and the sink may fail
    stream, resolver, resolverMayFail, sinkMayFail,
    \* write_to: where it is (wpc, the chunk ci, the reference ri of the
    \* chunk), the bytes a resolve call returned and that are not yet written,
    \* and its result
    wpc, ci, ri, pending, wret,
    \* the bytes the sink holds, and every call made to the resolver and to
    \* the sink, in order
    sink, calls

metaVars == <<inputCase, suffix, footerOut, annot, ociOut>>
buildVars == <<manifestIn, tarsplitIn, built>>
writeEnv == <<stream, resolver, resolverMayFail, sinkMayFail>>
writeVars == <<stream, resolver, resolverMayFail, sinkMayFail,
               wpc, ci, ri, pending, wret, sink, calls>>
vars == <<inputCase, suffix, footerOut, annot, ociOut,
          manifestIn, tarsplitIn, built,
          stream, resolver, resolverMayFail, sinkMayFail,
          wpc, ci, ri, pending, wret, sink, calls>>

----------------------------------------------------------------------------
(* Option<T> *)

None == <<>>
Some(x) == <<x>>
IsSome(o) == Len(o) = 1
Unwrap(o) == o[1]

----------------------------------------------------------------------------
(* Bytes and little-endian integers *)

Byte == 0..255

RECURSIVE Pow2(_)
Pow2(k) == IF k = 0 THEN 1 ELSE 2 * Pow2(k - 1)

\* The little-endian encoding of a small number n on `width` bytes.
RECURSIVE EncodeLE(_, _)
EncodeLE(n, width) ==
    IF width = 0 THEN <<>> ELSE <<n % 256>> \o EncodeLE(n \div 256, width - 1)

\* u64 addition a + b on the 8-byte little-endian form, limb by limb from the
\* least significant byte: the wrapped sum and the carry out of bit 63.
RECURSIVE AddLimbs(_, _, _, _)
AddLimbs(a, b, i, carry) ==
    IF i > Len(a) THEN [sum |-> <<>>, carry |-> carry]
    ELSE LET s == a[i] + b[i] + carry
             rest == AddLimbs(a, b, i + 1, s \div 256)
         IN  [sum |-> <<s % 256>> \o rest.sum, carry |-> rest.carry]

AddU64(a, b) == AddLimbs(a, b, 1, 0)

\* One bit of one byte inverted.
FlipBit(b, k) == IF (b \div Pow2(k)) % 2 = 1 THEN b - Pow2(k) ELSE b + Pow2(k)

FlipBitAt(bytes, i, k) == [bytes EXCEPT ![i] = FlipBit(bytes[i], k)]

----------------------------------------------------------------------------
(* Footer codec (format.rs) *)

ZSTD_SKIPPABLE_MAGIC == <<80, 42, 77, 24>>     \* 0x50 0x2a 0x4d 0x18
ZSTD_CHUNKED_FOOTER_SIZE == 64
ZSTD_CHUNKED_MANIFEST_TYPE == 1
ZSTD_CHUNKED_MAGIC == <<71, 78, 85, 108, 73, 110, 85, 120>>   \* b"GNUlInUx"

\* size_of::<FooterReference>(): three U64
FooterReferenceSize == 24
\* size_of::<Footer>(): 4 + 4 + 24 + 8 + 24 + 8, repr(C) of unaligned fields
FooterStructSize == 4 + 4 + FooterReferenceSize + 8 + FooterReferenceSize + 8

\* FooterReference read from 24 bytes
FooterReference(bytes) ==
    [offset |-> SubSeq(bytes, 1, 8),
     length_compressed |-> SubSeq(bytes, 9, 16),
     length_uncompressed |-> SubSeq(bytes, 17, 24)]

\* Footer read from FooterStructSize bytes, field after field
Footer(bytes) ==
    [skippable_magic |-> SubSeq(bytes, 1, 4),
     skippable_size |-> SubSeq(bytes, 5, 8),
     manifest |-> FooterReference(SubSeq(bytes, 9, 32)),
     manifest_type |-> SubSeq(bytes, 33, 40),
     tarsplit |-> FooterReference(SubSeq(bytes, 41, 64)),
     zstd_chunked_magic |-> SubSeq(bytes, 65, 72)]

\* Footer::valid without the comparison of skippable_size
FooterValidNoSize(footer) ==
    /\ footer.skippable_magic = ZSTD_SKIPPABLE_MAGIC
    /\ footer.manifest_type = EncodeLE(ZSTD_CHUNKED_MANIFEST_TYPE, 8)
    /\ footer.zstd_chunked_magic = ZSTD_CHUNKED_MAGIC

\* Footer::valid
FooterValid(footer) ==
    /\ footer.skippable_magic = ZSTD_SKIPPABLE_MAGIC
    /\ footer.skippable_size = EncodeLE(ZSTD_CHUNKED_FOOTER_SIZE, 4)
    /\ footer.manifest_type = EncodeLE(ZSTD_CHUNKED_MANIFEST_TYPE, 8)
    /\ footer.zstd_chunked_magic = ZSTD_CHUNKED_MAGIC

\* zerocopy's FromBytes::ref_from_suffix for the unaligned Footer: the last
\* size_of::<Footer>() bytes of data, or an error when data is shorter.
RefFromSuffix(data) ==
    IF Len(data) < FooterStructSize THEN None
    ELSE Some(Footer(SubSeq(data, Len(data) - FooterStructSize + 1, Len(data))))

\* Footer::from_suffix
FooterFromSuffix(data) ==
    LET r == RefFromSuffix(data)
    IN  IF ~IsSome(r) THEN None
        ELSE IF FooterValid(Unwrap(r)) THEN r ELSE None

----------------------------------------------------------------------------
(* MetadataReference (lib.rs) *)

\* The struct MetadataReference; range is start..end
MetadataReference(start, end, digest, uncompressed_size) ==
    [start |-> start, end |-> end, digest |-> digest,
     uncompressed_size |-> uncompressed_size]

\* `start + length` on u64.  With overflow checks compiled in (the debug
\* profile) an overflowing addition panics; without them (the release profile)
\* it wraps.  The outcome is None for the panic, Some(sum) otherwise.
CheckedPlus(a, b, overflowChecks) ==
    LET r == AddU64(a, b)
    IN  IF r.carry = 1 /\ overflowChecks THEN None ELSE Some(r.sum)

\* MetadataReference::from_footer: Some(reference), or None for a panic
MetadataReferenceFromFooter(value, overflowChecks) ==
    LET start == value.offset
        end == CheckedPlus(start, value.length_compressed, overflowChecks)
    IN  IF ~IsSome(end) THEN None
        ELSE Some(MetadataReference(start, Unwrap(end), None,
                                    value.length_uncompressed))

\* The outcomes of a call: it returns None, it returns Some(references), or
\* it panics.
RetNone == [tag |-> "None"]
RetPanic == [tag |-> "Panic"]
RetSome(m, t) == [tag |-> "Some", manifest |-> m, tarsplit |-> t]
NotCalled == [tag |-> "NotCalled"]

\* MetadataReferences::from_footer
MetadataReferencesFromFooter(data, overflowChecks) ==
    LET footer == FooterFromSuffix(data)
    IN  IF ~IsSome(footer) THEN RetNone
        ELSE LET m == MetadataReferenceFromFooter(Unwrap(footer).manifest,
                                                  overflowChecks)
                 t == MetadataReferenceFromFooter(Unwrap(footer).tarsplit,
                                                  overflowChecks)
             IN  IF ~IsSome(m) \/ ~IsSome(t) THEN RetPanic
                 ELSE RetSome(Unwrap(m), Unwrap(t))

----------------------------------------------------------------------------
(* Decimal text of a u64 *)

U64Zero == EncodeLE(0, 8)
U64Max == <<255, 255, 255, 255, 255, 255, 255, 255>>

Digits == <<"0", "1", "2", "3", "4", "5", "6", "7", "8", "9">>

\* char::to_digit(10): Some(value) for an ASCII decimal digit, None otherwise
ToDigit(c) ==
    IF \E d \in 1..10 : Digits[d] = c
    THEN Some((CHOOSE d \in 1..10 : Digits[d] = c) - 1)
    ELSE None

\* value * 10 + digit on the 8-byte form: the wrapped result and the carry out
RECURSIVE MulAddLimbs(_, _, _)
MulAddLimbs(a, i, carry) ==
    IF i > Len(a) THEN [val |-> <<>>, carry |-> carry]
    ELSE LET s == a[i] * 10 + carry
             rest == MulAddLimbs(a, i + 1, s \div 256)
         IN  [val |-> <<s % 256>> \o rest.val, carry |-> rest.carry]

\* The digit loop of u64::from_str: checked_mul(10) and checked_add(digit) per
\* character; an overflow or a character that is no digit is an error (None).
RECURSIVE ParseDigits(_, _, _)
ParseDigits(s, i, acc) ==
    IF i > Len(s) THEN Some(acc)
    ELSE LET d == ToDigit(s[i])
         IN  IF ~IsSome(d) THEN None
             ELSE LET r == MulAddLimbs(acc, 1, Unwrap(d))
                  IN  IF r.carry # 0 THEN None
                      ELSE ParseDigits(s, i + 1, r.val)

\* <u64 as FromStr>::from_str (radix 10): the empty string and a lone sign are
\* errors; one leading '+' is accepted; a '-' is not a digit of an unsigned type.
ParseU64(s) ==
    IF Len(s) = 0 THEN None
    ELSE IF Len(s) = 1 /\ s[1] \in {"+", "-"} THEN None
    ELSE IF s[1] = "+" THEN ParseDigits(s, 2, U64Zero)
    ELSE ParseDigits(s, 1, U64Zero)

\* bytes divided by 10, from the most significant limb down: quotient and remainder
RECURSIVE DivMod10(_, _, _)
DivMod10(a, i, rem) ==
    IF i = 0 THEN [quot |-> <<>>, rem |-> rem]
    ELSE LET cur == rem * 256 + a[i]
             rest == DivMod10(a, i - 1, cur % 10)
         IN  [quot |-> rest.quot \o <<cur \div 10>>, rem |-> rest.rem]

\* u64's Display: the base-10 text, no sign, no leading zero
RECURSIVE ToDecimal(_)
ToDecimal(v) ==
    LET r == DivMod10(v, Len(v), 0)
    IN  IF r.quot = U64Zero THEN <<Digits[r.rem + 1]>>
        ELSE ToDecimal(r.quot) \o <<Digits[r.rem + 1]>>

----------------------------------------------------------------------------
(* Annotation codec (lib.rs) *)

\* str::split(':'): the pieces between the separators; the empty string splits
\* into one empty piece.
RECURSIVE SplitFrom(_, _, _)
SplitFrom(s, i, cur) ==
    IF i > Len(s) THEN <<cur>>
    ELSE IF s[i] = ":" THEN <<cur>> \o SplitFrom(s, i + 1, <<>>)
    ELSE SplitFrom(s, i + 1, Append(cur, s[i]))

Split(s) == SplitFrom(s, 1, <<>>)

\* to_vec_u64 reading only the first digit of each piece
to_vec_u64_FirstDigit(value) ==
    LET pieces == Split(value)
        parsed == [i \in 1..Len(pieces) |->
                      IF Len(pieces[i]) = 0 THEN None
                      ELSE ParseU64(<<pieces[i][1]>>)]
    IN  IF \E i \in 1..Len(pieces) : ~IsSome(parsed[i]) THEN None
        ELSE Some([i \in 1..Len(pieces) |-> Unwrap(parsed[i])])

\* to_vec_u64: every piece parsed; None as soon as one piece does not parse
to_vec_u64(value) ==
    LET pieces == Split(value)
        parsed == [i \in 1..Len(pieces) |-> ParseU64(pieces[i])]
    IN  IF \E i \in 1..Len(pieces) : ~IsSome(parsed[i]) THEN None
        ELSE Some([i \in 1..Len(pieces) |-> Unwrap(parsed[i])])

KeyManifestChecksum == "io.github.containers.zstd-chunked.manifest-checksum"
KeyManifestPosition == "io.github.containers.zstd-chunked.manifest-position"
KeyTarsplitChecksum == "io.github.containers.zstd-chunked.tarsplit-checksum"
KeyTarsplitPosition == "io.github.containers.zstd-chunked.tarsplit-position"
Keys == {KeyManifestChecksum, KeyManifestPosition,
         KeyTarsplitChecksum, KeyTarsplitPosition}

\* The result of one `match to_vec_u64(position)?.as_slice() { ... }` arm of
\* from_oci: "None" when the early return is taken, "Panic" when start + length
\* panics, and the reference otherwise.  `typed` tells the manifest pattern
\* &[start, length, uncompressed_size, 1] from the tarsplit pattern
\* &[start, length, uncompressed_size].
OciReference(position, digest, typed, overflowChecks) ==
    LET v == to_vec_u64(position)
    IN  IF ~IsSome(v) THEN [tag |-> "None"]
        ELSE LET f == Unwrap(v)
                 matches == IF typed
                            THEN Len(f) = 4
                                 /\ f[4] = EncodeLE(ZSTD_CHUNKED_MANIFEST_TYPE, 8)
                            ELSE Len(f) = 3
             IN  IF ~matches THEN [tag |-> "None"]
                 ELSE LET end == CheckedPlus(f[1], f[2], overflowChecks)
                      IN  IF ~IsSome(end) THEN [tag |-> "Panic"]
                          ELSE [tag |-> "Ref",
                                ref |-> MetadataReference(f[1], Unwrap(end),
                                                          digest, f[3])]

\* MetadataReferences::from_oci; get is the annotation lookup (key -> Option)
MetadataReferencesFromOci(get, overflowChecks) ==
    LET manifest_digest == get[KeyManifestChecksum]
        manifest_position == get[KeyManifestPosition]
        tarsplit_digest == get[KeyTarsplitChecksum]
        tarsplit_position == get[KeyTarsplitPosition]
    IN  IF ~IsSome(manifest_position) THEN RetNone
        ELSE IF ~IsSome(tarsplit_position) THEN RetNone
        ELSE LET m == OciReference(Unwrap(manifest_position), manifest_digest,
                                   TRUE, overflowChecks)
             IN  IF m.tag = "None" THEN RetNone
                 ELSE IF m.tag = "Panic" THEN RetPanic
                 ELSE LET t == OciReference(Unwrap(tarsplit_position),
                                            tarsplit_digest, FALSE, overflowChecks)
                      IN  IF t.tag = "None" THEN RetNone
                          ELSE IF t.tag = "Panic" THEN RetPanic
                          ELSE RetSome(m.ref, t.ref)

----------------------------------------------------------------------------
(* Tarsplit payloads: base64 (format.rs, deserialize_option_base64) *)

Base64Alphabet ==
    <<"A", "B", "C", "D", "E", "F", "G", "H", "I", "J", "K", "L", "M", "N", "O", "P",
      "Q", "R", "S", "T", "U", "V", "W", "X", "Y", "Z", "a", "b", "c", "d", "e", "f",
      "g", "h", "i", "j", "k", "l", "m", "n", "o", "p", "q", "r", "s", "t", "u", "v",
      "w", "x", "y", "z", "0", "1", "2", "3", "4", "5", "6", "7", "8", "9", "+", "/">>

IsBase64Char(c) == \E v \in 1..64 : Base64Alphabet[v] = c
Sextet(c) == (CHOOSE v \in 1..64 : Base64Alphabet[v] = c) - 1

\* One group of four characters, the last of the text or not: Some(bytes), or
\* None for a character outside the alphabet, padding anywhere but at the end
\* of the last group, or non-zero bits under the padding.
Base64Group(g, last) ==
    LET pads == IF g[4] # "=" THEN 0 ELSE IF g[3] # "=" THEN 1 ELSE 2
        n == 4 - pads
    IN  IF (pads > 0 /\ ~last) \/ \E i \in 1..n : ~IsBase64Char(g[i]) THEN None
        ELSE LET v == [i \in 1..n |-> Sextet(g[i])]
             IN  CASE pads = 0 ->
                        Some(<<v[1] * 4 + v[2] \div 16,
                               (v[2] % 16) * 16 + v[3] \div 4,
                               (v[3] % 4) * 64 + v[4]>>)
                   [] pads = 1 ->
                        IF v[3] % 4 # 0 THEN None
                        ELSE Some(<<v[1] * 4 + v[2] \div 16,
                                    (v[2] % 16) * 16 + v[3] \div 4>>)
                   [] pads = 2 ->
                        IF v[2] % 16 # 0 THEN None
                        ELSE Some(<<v[1] * 4 + v[2] \div 16>>)

\* base64 STANDARD decode: padded text, four characters per group
RECURSIVE Base64Decode(_)
Base64Decode(s) ==
    IF Len(s) = 0 THEN Some(<<>>)
    ELSE IF Len(s) < 4 THEN None
    ELSE LET g == Base64Group(SubSeq(s, 1, 4), Len(s) = 4)
             rest == Base64Decode(SubSeq(s, 5, Len(s)))
         IN  IF ~IsSome(g) \/ ~IsSome(rest) THEN None
             ELSE Some(Unwrap(g) \o Unwrap(rest))

\* deserialize_option_base64: Ok(None) for no payload, Ok(Some(bytes)) for
\* base64 text, an error otherwise.  The result is Some(field) or None (error).
DeserializeOptionBase64(opt) ==
    IF ~IsSome(opt) THEN Some(None)
    ELSE LET d == Base64Decode(Unwrap(opt))
         IN  IF IsSome(d) THEN Some(d) ELSE None

\* serde_json::from_str::<TarSplitEntry>(line): None for a line that is no
\* JSON record of that shape or whose payload does not decode
DeserializeTarSplitEntry(line) ==
    IF ~line.json THEN None
    ELSE LET payload == DeserializeOptionBase64(line.payload)
         IN  IF ~IsSome(payload) THEN None
             ELSE Some([name |-> line.name, size |-> line.size,
                        payload |-> Unwrap(payload)])

----------------------------------------------------------------------------
(* Stream builder (lib.rs) *)

ContentReference(start, end, digest, size) ==
    [range |-> [start |-> start, end |-> end], digest |-> digest, size |-> size]

Inline(data) == [kind |-> "Inline", data |-> data, refs |-> <<>>]
External(refs) == [kind |-> "External", data |-> <<>>, refs |-> refs]

Ok(chunks) == [tag |-> "Ok", chunks |-> chunks]
Err(msg) == [tag |-> "Err", msg |-> msg]

\* The closure of filter_map not asking for the digest: an entry without one
\* is kept, with an empty digest
EntryReferenceDigestOptional(entry) ==
    IF IsSome(entry.size) /\ IsSome(entry.offset) /\ IsSome(entry.end_offset)
    THEN Some(<<entry.name,
                ContentReference(Unwrap(entry.offset), Unwrap(entry.end_offset),
                                 IF IsSome(entry.digest) THEN Unwrap(entry.digest)
                                 ELSE "",
                                 Unwrap(entry.size))>>)
    ELSE None

\* The closure of filter_map: the (name, reference) of an entry that has its
\* digest, size, offset and endOffset; None for any other entry
EntryReference(entry) ==
    IF IsSome(entry.digest) /\ IsSome(entry.size)
       /\ IsSome(entry.offset) /\ IsSome(entry.end_offset)
    THEN Some(<<entry.name,
                ContentReference(Unwrap(entry.offset), Unwrap(entry.end_offset),
                                 Unwrap(entry.digest), Unwrap(entry.size))>>)
    ELSE None

\* An insert that leaves the value of a key already present
InsertKeepFirst(map, key, value) ==
    [k \in DOMAIN map \cup {key} |->
        IF k \in DOMAIN map THEN map[k] ELSE value]

\* HashMap::insert
Insert(map, key, value) ==
    [k \in DOMAIN map \cup {key} |-> IF k = key THEN value ELSE map[k]]

EmptyMap == [k \in {} |-> None]

\* collect() into the HashMap, entry after entry: a later insert of a name
\* replaces the earlier one
RECURSIVE CollectEntries(_, _, _)
CollectEntries(entries, i, map) ==
    IF i > Len(entries) THEN map
    ELSE LET kv == EntryReference(entries[i])
         IN  CollectEntries(entries, i + 1,
                            IF IsSome(kv)
                            THEN Insert(map, Unwrap(kv)[1], Unwrap(kv)[2])
                            ELSE map)

ManifestEntries(entries) == CollectEntries(entries, 1, EmptyMap)

\* MatchEntry trying the payload arm before the named arm
MatchEntryPayloadFirst(entry, manifest_entries, chunks) ==
    IF IsSome(entry.payload)
    THEN Ok(Append(chunks, Inline(Unwrap(entry.payload))))
    ELSE IF IsSome(entry.name) /\ IsSome(entry.size)
    THEN LET name == Unwrap(entry.name)
         IN  IF name \notin DOMAIN manifest_entries
             THEN Err([kind |-> "missing from manifest", name |-> name])
             ELSE LET reference == manifest_entries[name]
                  IN  IF Unwrap(entry.size) # reference.size
                      THEN Err([kind |-> "size mismatch", name |-> name])
                      ELSE Ok(Append(chunks, External(<<reference>>)))
    ELSE Ok(chunks)

\* MatchEntry without the comparison of the sizes
MatchEntryNoSizeCheck(entry, manifest_entries, chunks) ==
    IF IsSome(entry.name) /\ IsSome(entry.size)
    THEN LET name == Unwrap(entry.name)
         IN  IF name \notin DOMAIN manifest_entries
             THEN Err([kind |-> "missing from manifest", name |-> name])
             ELSE Ok(Append(chunks, External(<<manifest_entries[name]>>)))
    ELSE IF IsSome(entry.payload)
    THEN Ok(Append(chunks, Inline(Unwrap(entry.payload))))
    ELSE Ok(chunks)

\* MatchEntry putting the new chunk in front of the others
MatchEntryPrepend(entry, manifest_entries, chunks) ==
    IF IsSome(entry.name) /\ IsSome(entry.size)
    THEN LET name == Unwrap(entry.name)
         IN  IF name \notin DOMAIN manifest_entries
             THEN Err([kind |-> "missing from manifest", name |-> name])
             ELSE LET reference == manifest_entries[name]
                  IN  IF Unwrap(entry.size) # reference.size
                      THEN Err([kind |-> "size mismatch", name |-> name])
                      ELSE Ok(<<External(<<reference>>)>> \o chunks)
    ELSE IF IsSome(entry.payload)
    THEN Ok(<<Inline(Unwrap(entry.payload))>> \o chunks)
    ELSE Ok(chunks)

\* One turn of `for line in tarsplit.lines()`: the chunks with what the
\* record adds, or the error that ends the call
MatchEntry(entry, manifest_entries, chunks) ==
    IF IsSome(entry.name) /\ IsSome(entry.size)
    THEN LET name == Unwrap(entry.name)
         IN  IF name \notin DOMAIN manifest_entries
             THEN Err([kind |-> "missing from manifest", name |-> name])
             ELSE LET reference == manifest_entries[name]
                  IN  IF Unwrap(entry.size) # reference.size
                      THEN Err([kind |-> "size mismatch", name |-> name])
                      ELSE Ok(Append(chunks, External(<<reference>>)))
    ELSE IF IsSome(entry.payload)
    THEN Ok(Append(chunks, Inline(Unwrap(entry.payload))))
    ELSE Ok(chunks)

\* The loop over the lines, from line i on
RECURSIVE WeaveLines(_, _, _, _)
WeaveLines(lines, i, manifest_entries, chunks) ==
    IF i > Len(lines) THEN Ok(chunks)
    ELSE LET entry == DeserializeTarSplitEntry(lines[i])
         IN  IF ~IsSome(entry)
             THEN Err([kind |-> "tarsplit record", name |-> ""])
             ELSE LET r == MatchEntry(Unwrap(entry), manifest_entries, chunks)
                  IN  IF r.tag = "Err" THEN r
                      ELSE WeaveLines(lines, i + 1, manifest_entries, r.chunks)

\* Stream::new_from_frames
NewFromFrames(manifest, tarsplit) ==
    IF ~manifest.decodes THEN Err([kind |-> "manifest", name |-> ""])
    ELSE IF manifest.version # 1
    THEN Err([kind |-> "manifest version", name |-> ""])
    ELSE LET manifest_entries == ManifestEntries(manifest.entries)
         IN  IF ~tarsplit.decodes THEN Err([kind |-> "tarsplit", name |-> ""])
             ELSE WeaveLines(tarsplit.lines, 1, manifest_entries, <<>>)

NotBuilt == [tag |-> "NotCalled"]

MetaIdle ==
    /\ inputCase = [kind |-> "none"]
    /\ suffix = <<>>
    /\ footerOut = NotCalled
    /\ annot = [k \in Keys |-> None]
    /\ ociOut = NotCalled

BuildIdle ==
    /\ manifestIn = [decodes |-> FALSE, version |-> 0, entries |-> <<>>]
    /\ tarsplitIn = [decodes |-> FALSE, lines |-> <<>>]
    /\ built = NotBuilt

----------------------------------------------------------------------------
(* Stream driver (lib.rs) *)

\* references() yielding only the first reference of each External chunk
RECURSIVE ReferencesFirstOnly(_)
ReferencesFirstOnly(chunks) ==
    IF Len(chunks) = 0 THEN <<>>
    ELSE (IF Head(chunks).kind = "External" /\ Len(Head(chunks).refs) > 0
          THEN <<Head(chunks).refs[1]>> ELSE <<>>)
         \o ReferencesFirstOnly(Tail(chunks))

\* Stream::references: the references of each External chunk, in order, and
\* nothing for an Inline chunk
RECURSIVE References(_)
References(chunks) ==
    IF Len(chunks) = 0 THEN <<>>
    ELSE (IF Head(chunks).kind = "External" THEN Head(chunks).refs ELSE <<>>)
         \o References(Tail(chunks))

\* A call of the resolver or of the sink, as the caller sees it
ResolveCall(ref, ok) ==
    [op |-> "resolve", ref |-> Some(ref), data |-> <<>>, ok |-> ok]
WriteCall(data, ok) ==
    [op |-> "write", ref |-> None, data |-> data, ok |-> ok]

\* The proper prefixes of data: what a failing write_all may have written
WrittenBeforeFailure(data) ==
    {SubSeq(data, 1, n) : n \in 0..(IF Len(data) = 0 THEN 0 ELSE Len(data) - 1)}

\* write.write_all(data)?: the sink takes all of data and write_to goes on at
\* nextPc, or the sink fails, having taken some of data, and write_to returns
\* the error
WriteAll(data, nextPc, nextCi, nextRi) ==
    \/ /\ sink' = sink \o data
       /\ calls' = Append(calls, WriteCall(data, TRUE))
       /\ wpc' = nextPc
       /\ ci' = nextCi
       /\ ri' = nextRi
       /\ wret' = wret
    \/ /\ sinkMayFail
       /\ \E written \in WrittenBeforeFailure(data) : sink' = sink \o written
       /\ calls' = Append(calls, WriteCall(data, FALSE))
       /\ wpc' = "done"
       /\ wret' = "ErrSink"
       /\ UNCHANGED <<ci, ri>>

\* Chunk::Inline(data) => write.write_all(data)?
WriteInline ==
    /\ wpc = "loop"
    /\ ci <= Len(stream)
    /\ stream[ci].kind = "Inline"
    /\ WriteAll(stream[ci].data, "loop", ci + 1, 1)
    /\ pending' = pending
    /\ UNCHANGED writeEnv
    /\ UNCHANGED <<metaVars, buildVars>>

\* Resolve with the bytes of a reference kept from its first call: no second
\* call for an equal reference
ResolveCached ==
    /\ wpc = "loop"
    /\ ci <= Len(stream)
    /\ stream[ci].kind = "External"
    /\ ri <= Len(stream[ci].refs)
    /\ LET ref == stream[ci].refs[ri]
           seen == \E i \in 1..Len(calls) : calls[i] = ResolveCall(ref, TRUE)
       IN  \/ /\ calls' = IF seen THEN calls ELSE Append(calls, ResolveCall(ref, TRUE))
              /\ pending' = resolver[ref]
              /\ wpc' = "write"
              /\ wret' = wret
           \/ /\ resolverMayFail
              /\ ~seen
              /\ calls' = Append(calls, ResolveCall(ref, FALSE))
              /\ pending' = pending
              /\ wpc' = "done"
              /\ wret' = "ErrResolve"
    /\ UNCHANGED <<ci, ri, sink>>
    /\ UNCHANGED writeEnv
    /\ UNCHANGED <<metaVars, buildVars>>

\* Resolve going on after a failed call, as if it had returned no bytes
ResolveSwallow ==
    /\ wpc = "loop"
    /\ ci <= Len(stream)
    /\ stream[ci].kind = "External"
    /\ ri <= Len(stream[ci].refs)
    /\ LET ref == stream[ci].refs[ri]
       IN  \/ /\ calls' = Append(calls, ResolveCall(ref, TRUE))
              /\ pending' = resolver[ref]
           \/ /\ resolverMayFail
              /\ calls' = Append(calls, ResolveCall(ref, FALSE))
              /\ pending' = <<>>
    /\ wpc' = "write"
    /\ wret' = wret
    /\ UNCHANGED <<ci, ri, sink>>
    /\ UNCHANGED writeEnv
    /\ UNCHANGED <<metaVars, buildVars>>

\* resolve_reference(ref)?: the call for the reference ri of the External
\* chunk ci; it returns the bytes, or fails and write_to returns the error
Resolve ==
    /\ wpc = "loop"
    /\ ci <= Len(stream)
    /\ stream[ci].kind = "External"
    /\ ri <= Len(stream[ci].refs)
    /\ LET ref == stream[ci].refs[ri]
       IN  \/ /\ calls' = Append(calls, ResolveCall(ref, TRUE))
              /\ pending' = resolver[ref]
              /\ wpc' = "write"
              /\ wret' = wret
           \/ /\ resolverMayFail
              /\ calls' = Append(calls, ResolveCall(ref, FALSE))
              /\ pending' = pending
              /\ wpc' = "done"
              /\ wret' = "ErrResolve"
    /\ UNCHANGED <<ci, ri, sink>>
    /\ UNCHANGED writeEnv
    /\ UNCHANGED <<metaVars, buildVars>>

\* write.write_all(&resolved)? for the bytes the resolver returned
WriteResolved ==
    /\ wpc = "write"
    /\ WriteAll(pending, "loop", ci, ri + 1)
    /\ pending' = <<>>
    /\ UNCHANGED writeEnv
    /\ UNCHANGED <<metaVars, buildVars>>

\* The end of `for ref in refs`: on to the next chunk
NextChunk ==
    /\ wpc = "loop"
    /\ ci <= Len(stream)
    /\ stream[ci].kind = "External"
    /\ ri > Len(stream[ci].refs)
    /\ ci' = ci + 1
    /\ ri' = 1
    /\ UNCHANGED <<wpc, pending, wret, sink, calls>>
    /\ UNCHANGED writeEnv
    /\ UNCHANGED <<metaVars, buildVars>>

\* The end of `for chunk in &self.chunks`: Ok(())
ReturnOk ==
    /\ wpc = "loop"
    /\ ci > Len(stream)
    /\ wpc' = "done"
    /\ wret' = "Ok"
    /\ UNCHANGED <<ci, ri, pending, sink, calls>>
    /\ UNCHANGED writeEnv
    /\ UNCHANGED <<metaVars, buildVars>>

WriteIdle ==
    /\ stream = <<>>
    /\ resolver = <<>>
    /\ resolverMayFail = FALSE
    /\ sinkMayFail = FALSE
    /\ wpc = "done"
    /\ ci = 1
    /\ ri = 1
    /\ pending = <<>>
    /\ wret = "NotCalled"
    /\ sink = <<>>
    /\ calls = <<>>

----------------------------------------------------------------------------
(* Inputs of the metadata codecs *)

\* 2^63
U64Half == <<0, 0, 0, 0, 0, 0, 0, 128>>

\* The u64 values the inputs are drawn from
OffsetVals == {U64Zero, EncodeLE(10, 8), U64Half, U64Max}
LengthVals == {U64Zero, EncodeLE(1, 8), EncodeLE(20, 8), U64Half}
SizeVals == {U64Zero, EncodeLE(30, 8)}

\* (offset, length, uncompressed length) of one blob
BlobVals ==
    {[offset |-> o, length_compressed |-> l, length_uncompressed |-> u] :
        o \in OffsetVals, l \in LengthVals, u \in SizeVals}

\* A blob far from any overflow
PlainBlob ==
    [offset |-> EncodeLE(10, 8), length_compressed |-> EncodeLE(20, 8),
     length_uncompressed |-> EncodeLE(30, 8)]

\* The bytes of a FooterReference (IntoBytes)
FooterReferenceBytes(r) ==
    r.offset \o r.length_compressed \o r.length_uncompressed

\* The bytes of a footer with the given fields (IntoBytes of Footer)
FooterBytes(magic, size, m, type, t, trailer) ==
    magic \o size \o FooterReferenceBytes(m) \o type \o FooterReferenceBytes(t)
          \o trailer

\* The footer a writer of the format emits for the two blobs
WellFormedFooter(m, t) ==
    FooterBytes(ZSTD_SKIPPABLE_MAGIC, EncodeLE(ZSTD_CHUNKED_FOOTER_SIZE, 4), m,
                EncodeLE(ZSTD_CHUNKED_MANIFEST_TYPE, 8), t, ZSTD_CHUNKED_MAGIC)

\* The most bytes of file content kept in front of the footer
MaxPad == 2
\* The values of the bytes in front of the footer
PadBytes == {0, 255}
\* How many leading bytes of the footer the suffix may be missing
CutVals == {0, 1, 7, 8, 9, 72}

\* The 1-based indices, in the footer, of the bytes of its constant fields
ConstantFieldBytes == (1..8) \cup (33..40) \cup (65..72)

\* The changes made to a well-formed footer
FooterMutations ==
    {[kind |-> "none"]}
    \cup {[kind |-> "flip", byte |-> i, bit |-> k] : i \in 1..72, k \in 0..7}
    \cup {[kind |-> "size56"], [kind |-> "lowercase"], [kind |-> "type2"]}

Mutate(bytes, mut) ==
    CASE mut.kind = "none" -> bytes
      [] mut.kind = "flip" -> FlipBitAt(bytes, mut.byte, mut.bit)
      [] mut.kind = "size56" -> [bytes EXCEPT ![5] = 56]
      \* "GNUlinux": the fifth and seventh letters in lower case
      [] mut.kind = "lowercase" -> [bytes EXCEPT ![69] = 105, ![71] = 117]
      [] mut.kind = "type2" -> [bytes EXCEPT ![33] = 2]

\* pad bytes of value fill, the (changed) footer, and the first cut bytes of
\* the footer and everything in front of them left out
SuffixOf(c) ==
    LET whole == Mutate(WellFormedFooter(c.m, c.t), c.mut)
    IN  IF c.cut = 0 THEN [i \in 1..c.pad |-> c.fill] \o whole
        ELSE SubSeq(whole, c.cut + 1, Len(whole))

FooterCases ==
    {[m |-> m, t |-> t, mut |-> [kind |-> "none"], pad |-> p, fill |-> 0, cut |-> 0] :
        m \in BlobVals, t \in BlobVals, p \in {0, MaxPad}}
    \cup
    {[m |-> m, t |-> PlainBlob, mut |-> mut, pad |-> p, fill |-> f, cut |-> c] :
        m \in {PlainBlob, [PlainBlob EXCEPT !.offset = U64Max]},
        mut \in FooterMutations, p \in 0..MaxPad, f \in PadBytes, c \in CutVals}

AnnotNone == [k \in Keys |-> None]

InitFooter ==
    /\ inputCase \in FooterCases
    /\ suffix = SuffixOf(inputCase)
    /\ footerOut = NotCalled
    /\ annot = AnnotNone
    /\ ociOut = NotCalled
    /\ BuildIdle
    /\ WriteIdle

\* A call of MetadataReferences::from_footer(suffix), in a build with or
\* without overflow checks
FromFooter ==
    /\ footerOut = NotCalled
    /\ \E overflowChecks \in BOOLEAN :
          footerOut' = MetadataReferencesFromFooter(suffix, overflowChecks)
    /\ UNCHANGED <<inputCase, suffix, annot, ociOut>>
    /\ UNCHANGED buildVars
    /\ UNCHANGED writeVars

NextFooter == FromFooter

SpecFooter == InitFooter /\ [][NextFooter]_vars

----------------------------------------------------------------------------
(* Footer codec: claims *)

\* The byte k (1-based) of the last 72 bytes of suffix
TailByte(k) == suffix[Len(suffix) - 72 + k]
TailBytes(from, to) == [k \in 1..(to - from + 1) |-> TailByte(from + k - 1)]

\* The constant fields of the last 72 bytes, with the frame size the code
\* asks for (64)
TailConstantsMatch ==
    /\ Len(suffix) >= 72
    /\ TailBytes(1, 4) = <<80, 42, 77, 24>>
    /\ TailBytes(5, 8) = <<64, 0, 0, 0>>
    /\ TailBytes(33, 40) = <<1, 0, 0, 0, 0, 0, 0, 0>>
    /\ TailBytes(65, 72) = <<71, 78, 85, 108, 73, 110, 85, 120>>

\* The same with the frame size the claim names (56).  The fields of the
\* claim, packed in its order, take 72 bytes: a suffix of 64 to 71 bytes
\* cannot hold them.
ClaimedConstantsMatch ==
    /\ Len(suffix) >= 72
    /\ TailBytes(1, 4) = <<80, 42, 77, 24>>
    /\ TailBytes(5, 8) = <<56, 0, 0, 0>>
    /\ TailBytes(33, 40) = <<1, 0, 0, 0, 0, 0, 0, 0>>
    /\ TailBytes(65, 72) = <<71, 78, 85, 108, 73, 110, 85, 120>>

\* C3 as amended: from_footer yields None for every suffix shorter than 72
\* bytes; for a suffix of 72 bytes or more it reads only the last 72 bytes and
\* yields None if and only if some constant field differs, the constants being
\* skippable_magic = 50 2A 4D 18, skippable_size = 64, manifest_type = 1 and
\* the trailing magic "GNUlInUx"; a returned result carries the offsets and
\* sizes found at their places in those 72 bytes; and one bit flipped in a
\* constant field of a well-formed footer yields None.
C3_FooterIdentity ==
    footerOut # NotCalled =>
        /\ (footerOut.tag = "None") <=> ~TailConstantsMatch
        /\ footerOut.tag = "Some" =>
              /\ footerOut.manifest.start = TailBytes(9, 16)
              /\ footerOut.manifest.uncompressed_size = TailBytes(25, 32)
              /\ footerOut.tarsplit.start = TailBytes(41, 48)
              /\ footerOut.tarsplit.uncompressed_size = TailBytes(57, 64)
        /\ (/\ inputCase.mut.kind = "flip"
            /\ inputCase.mut.byte \in ConstantFieldBytes
            /\ inputCase.cut = 0) => footerOut.tag = "None"

\* C3 witness: a whole footer behind some padding, one bit of its
\* skippable_size flipped, has been refused
C3_Witness ==
    /\ footerOut.tag = "None"
    /\ Len(suffix) > 72
    /\ inputCase.mut.kind = "flip"
    /\ inputCase.mut.byte = 5

\* C3 as claimed: None below 64 bytes, and from 64 bytes on a result if and
\* only if the constants match with skippable_size = 56
C3_AsClaimed ==
    footerOut # NotCalled =>
        /\ Len(suffix) < 64 => footerOut.tag = "None"
        /\ Len(suffix) >= 64 => (footerOut.tag = "Some" <=> ClaimedConstantsMatch)

\* C6: from_footer never panics, whatever the bytes
C6_NeverPanics == footerOut.tag # "Panic"

----------------------------------------------------------------------------
(* Annotation codec: inputs *)

\* A token of a position value: its text, and the u64 it denotes as a base-10
\* number (None when it denotes none)
Tok(text, val) == [text |-> text, val |-> val]

\* The decimal text of a value
NumTok(v) == Tok(ToDecimal(v), Some(v))

\* Tokens that denote no u64: empty, a letter, negative, 2^64, trailing junk,
\* a leading blank, a lone sign
BadToks ==
    {Tok(<<>>, None),
     Tok(<<"x">>, None),
     Tok(<<"-", "1">>, None),
     Tok(<<"1", "8", "4", "4", "6", "7", "4", "4", "0", "7", "3", "7", "0",
           "9", "5", "5", "1", "6", "1", "6">>, None),
     Tok(<<"1", "x">>, None),
     Tok(<<" ", "1">>, None),
     Tok(<<"+">>, None)}

\* Other spellings of a number that u64::from_str reads: leading zeros, a
\* leading plus sign
AltToks ==
    {Tok(<<"0", "0", "7">>, Some(EncodeLE(7, 8))),
     Tok(<<"+", "1", "0">>, Some(EncodeLE(10, 8))),
     Tok(<<"0", "1">>, Some(EncodeLE(1, 8))),
     Tok(<<"+", "1">>, Some(EncodeLE(1, 8)))}

\* The tokens that may follow the first three fields
TailToks ==
    {NumTok(EncodeLE(1, 8)), NumTok(EncodeLE(2, 8)), NumTok(U64Zero),
     Tok(<<"0", "1">>, Some(EncodeLE(1, 8))), Tok(<<"x">>, None)}

\* The most fields after the first three
MaxExtraFields == 2

RECURSIVE SeqsUpTo(_, _)
SeqsUpTo(S, n) ==
    IF n = 0 THEN {<<>>}
    ELSE LET shorter == SeqsUpTo(S, n - 1)
         IN  shorter \cup {Append(q, x) : q \in {r \in shorter : Len(r) = n - 1},
                                          x \in S}

\* The three fields of a blob, as decimal text
BlobToks(b) ==
    <<NumTok(b.offset), NumTok(b.length_compressed), NumTok(b.length_uncompressed)>>

\* The blobs the position values are built from: far from overflow, empty,
\* ending exactly at 2^64 - 1, and ending past it
OciBlobs ==
    {PlainBlob,
     [PlainBlob EXCEPT !.offset = U64Zero, !.length_compressed = U64Zero],
     [PlainBlob EXCEPT !.offset = U64Max, !.length_compressed = U64Zero],
     [PlainBlob EXCEPT !.offset = U64Max, !.length_compressed = EncodeLE(1, 8)],
     [PlainBlob EXCEPT !.offset = U64Half, !.length_compressed = U64Half],
     [PlainBlob EXCEPT !.offset = U64Half, !.length_compressed = EncodeLE(20, 8)]}

\* The field lists a position value is built from: the fields of a blob and
\* up to MaxExtraFields more; fewer than three fields; one field replaced by a
\* token that is no number or by another spelling; a single empty token.
FieldLists ==
    {BlobToks(b) \o tail : b \in OciBlobs, tail \in SeqsUpTo(TailToks, MaxExtraFields)}
    \cup {SubSeq(BlobToks(PlainBlob), 1, n) : n \in 1..2}
    \cup {[BlobToks(PlainBlob) \o tail EXCEPT ![i] = t] :
            i \in 1..3, t \in BadToks \cup AltToks,
            tail \in {<<>>, <<NumTok(EncodeLE(1, 8))>>}}
    \cup {BlobToks(PlainBlob) \o <<t>> : t \in BadToks \cup AltToks}
    \cup {<<Tok(<<>>, None)>>}

\* A few field lists, for the position that is not being varied
FewFieldLists ==
    {BlobToks(PlainBlob) \o tail :
        tail \in {<<>>, <<NumTok(EncodeLE(1, 8))>>, <<NumTok(EncodeLE(2, 8))>>}}
    \cup {BlobToks([PlainBlob EXCEPT !.offset = U64Max]) \o tail :
        tail \in {<<>>, <<NumTok(EncodeLE(1, 8))>>}}
    \cup {<<NumTok(U64Zero), Tok(<<"x">>, None), NumTok(U64Zero)>>}

\* The fields joined by ':' (a non-empty list)
RECURSIVE Join(_)
Join(fields) ==
    IF Len(fields) = 1 THEN fields[1].text
    ELSE fields[1].text \o <<":">> \o Join(Tail(fields))

\* The checksum annotations: absent, a digest, the empty string
ChecksumVals ==
    {None, Some(<<"s", "h", "a", "2", "5", "6", ":", "a", "b">>), Some(<<>>)}

ChecksumPairs ==
    {<<None, None>>, <<Some(<<"s", "h", "a", "2", "5", "6", ":", "a", "b">>), None>>,
     <<None, Some(<<>>)>>,
     <<Some(<<"s", "h", "a", "2", "5", "6", ":", "a", "b">>),
       Some(<<"s", "h", "a", "2", "5", "6", ":", "c", "d">>)>>}

\* The position annotations: absent (None) or the field list of the value
OciCases ==
    LET both == (FieldLists \X FewFieldLists) \cup (FewFieldLists \X FieldLists)
    IN  {[mfields |-> Some(p[1]), tfields |-> Some(p[2]), mck |-> ck[1], tck |-> ck[2]] :
            p \in both, ck \in ChecksumPairs}
        \cup
        {[mfields |-> m, tfields |-> t, mck |-> mc, tck |-> None] :
            m \in {None, Some(BlobToks(PlainBlob) \o <<NumTok(EncodeLE(1, 8))>>)},
            t \in {None, Some(BlobToks(PlainBlob))},
            mc \in ChecksumVals}

\* The annotations of a case
AnnotOf(c) ==
    [k \in Keys |->
        CASE k = KeyManifestPosition ->
                IF IsSome(c.mfields) THEN Some(Join(Unwrap(c.mfields))) ELSE None
          [] k = KeyTarsplitPosition ->
                IF IsSome(c.tfields) THEN Some(Join(Unwrap(c.tfields))) ELSE None
          [] k = KeyManifestChecksum -> c.mck
          [] k = KeyTarsplitChecksum -> c.tck]

InitOci ==
    /\ inputCase \in OciCases
    /\ annot = AnnotOf(inputCase)
    /\ ociOut = NotCalled
    /\ suffix = <<>>
    /\ footerOut = NotCalled
    /\ BuildIdle
    /\ WriteIdle

\* A call of MetadataReferences::from_oci(get), get looking annot up, in a
\* build with or without overflow checks
FromOci ==
    /\ ociOut = NotCalled
    /\ \E overflowChecks \in BOOLEAN :
          ociOut' = MetadataReferencesFromOci(annot, overflowChecks)
    /\ UNCHANGED <<inputCase, suffix, footerOut, annot>>
    /\ UNCHANGED buildVars
    /\ UNCHANGED writeVars

NextOci == FromOci

SpecOci == InitOci /\ [][NextOci]_vars

----------------------------------------------------------------------------
(* Annotation codec: claims *)

\* Every field of the list denotes a u64
AllNumeric(fields) == \A i \in 1..Len(fields) : IsSome(fields[i].val)

\* start + length of the field list does not fit in 64 bits
SumOverflows(fields) ==
    AddU64(Unwrap(fields[1].val), Unwrap(fields[2].val)).carry = 1

\* Both position keys are present, every token of both is a number, the
\* manifest position has four fields, the fourth being 1, and the tarsplit
\* position has three
PositionsWellFormed ==
    /\ IsSome(inputCase.mfields)
    /\ IsSome(inputCase.tfields)
    /\ LET m == Unwrap(inputCase.mfields)
           t == Unwrap(inputCase.tfields)
       IN  /\ AllNumeric(m)
           /\ AllNumeric(t)
           /\ Len(m) = 4
           /\ m[4].val = Some(EncodeLE(1, 8))
           /\ Len(t) = 3

\* C4: from_oci returns a result if and only if both position keys are
\* present, every token of both values is a base-10 u64, the manifest position
\* has exactly four fields with the fourth equal to 1, and the tarsplit
\* position has exactly three fields
C4_ResultIffWellFormed ==
    ociOut # NotCalled => (ociOut.tag = "Some" <=> PositionsWellFormed)

\* C5: when the positions are well formed but start + length of one of them
\* exceeds 2^64 - 1, from_oci returns None (no wrapped range, no panic)
C5_OverflowYieldsNone ==
    (/\ ociOut # NotCalled
     /\ PositionsWellFormed
     /\ \/ SumOverflows(Unwrap(inputCase.mfields))
        \/ SumOverflows(Unwrap(inputCase.tfields)))
    => ociOut.tag = "None"

----------------------------------------------------------------------------
(* The footer and the annotations of the same two blobs *)

EquivBlobs ==
    {[offset |-> o, length_compressed |-> l, length_uncompressed |-> EncodeLE(30, 8)] :
        o \in OffsetVals, l \in LengthVals}

\* The footer of a file and the annotations of its descriptor, written from
\* the same (offset, length, uncompressed length) of the manifest and of the
\* tarsplit; the annotations carry the manifest type 1
EquivCases ==
    {[m |-> m, t |-> t, mck |-> ck[1], tck |-> ck[2], pad |-> p,
      mfields |-> Some(BlobToks(m) \o <<NumTok(EncodeLE(ZSTD_CHUNKED_MANIFEST_TYPE, 8))>>),
      tfields |-> Some(BlobToks(t))] :
        m \in EquivBlobs, t \in EquivBlobs, ck \in ChecksumPairs, p \in {0, MaxPad}}

InitEquiv ==
    /\ inputCase \in EquivCases
    /\ suffix = [i \in 1..inputCase.pad |-> 0]
                  \o WellFormedFooter(inputCase.m, inputCase.t)
    /\ annot = AnnotOf(inputCase)
    /\ footerOut = NotCalled
    /\ ociOut = NotCalled
    /\ BuildIdle
    /\ WriteIdle

NextEquiv == FromFooter \/ FromOci

SpecEquiv == InitEquiv /\ [][NextEquiv]_vars

\* offset + length of the blob fits in 64 bits
Fits(b) == AddU64(b.offset, b.length_compressed).carry = 0

\* The reference describes the blob: range offset .. offset + length and the
\* uncompressed length
Describes(ref, b) ==
    /\ ref.start = b.offset
    /\ ref.end = AddU64(b.offset, b.length_compressed).sum
    /\ ref.uncompressed_size = b.length_uncompressed

\* C10: when start + length fits in 64 bits for both blobs, the footer and the
\* annotations of the same blobs both give references, with the same range
\* start .. start + length and the same uncompressed size; a reference from the
\* footer has no digest; a reference from the annotations has a digest exactly
\* when the checksum key is present, and it is the key's value
C10_FooterOciAgree ==
    /\ (Fits(inputCase.m) /\ Fits(inputCase.t)) =>
          /\ footerOut # NotCalled =>
                /\ footerOut.tag = "Some"
                /\ Describes(footerOut.manifest, inputCase.m)
                /\ Describes(footerOut.tarsplit, inputCase.t)
          /\ ociOut # NotCalled =>
                /\ ociOut.tag = "Some"
                /\ Describes(ociOut.manifest, inputCase.m)
                /\ Describes(ociOut.tarsplit, inputCase.t)
          /\ (footerOut # NotCalled /\ ociOut # NotCalled) =>
                /\ footerOut.manifest.start = ociOut.manifest.start
                /\ footerOut.manifest.end = ociOut.manifest.end
                /\ footerOut.manifest.uncompressed_size
                      = ociOut.manifest.uncompressed_size
                /\ footerOut.tarsplit.start = ociOut.tarsplit.start
                /\ footerOut.tarsplit.end = ociOut.tarsplit.end
                /\ footerOut.tarsplit.uncompressed_size
                      = ociOut.tarsplit.uncompressed_size
    /\ footerOut.tag = "Some" =>
          /\ footerOut.manifest.digest = None
          /\ footerOut.tarsplit.digest = None
    /\ ociOut.tag = "Some" =>
          /\ ociOut.manifest.digest = annot[KeyManifestChecksum]
          /\ ociOut.tarsplit.digest = annot[KeyTarsplitChecksum]

\* C10 witness: both calls have returned for blobs at 2^63 .. 2^63 + 20 and
\* 10 .. 2^63 + 10, the manifest checksum present and the tarsplit one absent
C10_Witness ==
    /\ footerOut.tag = "Some"
    /\ ociOut.tag = "Some"
    /\ inputCase.m.offset = U64Half
    /\ inputCase.m.length_compressed = EncodeLE(20, 8)
    /\ inputCase.t.offset = EncodeLE(10, 8)
    /\ inputCase.t.length_compressed = U64Half
    /\ IsSome(ociOut.manifest.digest)
    /\ ~IsSome(ociOut.tarsplit.digest)
    /\ ociOut.manifest.end = footerOut.manifest.end

----------------------------------------------------------------------------
(* Stream builder: inputs *)

ManifestEntry(name, size, digest, offset, end_offset) ==
    [name |-> name, size |-> size, digest |-> digest, offset |-> offset,
     end_offset |-> end_offset]

EntryA3 == ManifestEntry("a", Some(3), Some("d1"), Some(0), Some(5))
EntryA4 == ManifestEntry("a", Some(4), Some("d2"), Some(5), Some(9))
EntryB3 == ManifestEntry("b", Some(3), Some("d3"), Some(9), Some(12))

\* Entries of regular files, and entries of "a" lacking one of the four fields
CompleteEntries == {EntryA3, EntryA4, EntryB3}
EntryTemplates ==
    CompleteEntries
    \cup {[EntryA4 EXCEPT !.size = None], [EntryA4 EXCEPT !.digest = None],
          [EntryA4 EXCEPT !.offset = None], [EntryA4 EXCEPT !.end_offset = None]}

\* A line of the tarsplit: whether it is a JSON record, its name, size and
\* payload (base64 text), and, kept beside it, the bytes the payload stands for
Line(name, size, payload, bytes) ==
    [json |-> TRUE, name |-> name, size |-> size, payload |-> payload,
     bytes |-> bytes]

LineA3 == Line(Some("a"), Some(3), None, None)
LineA4 == Line(Some("a"), Some(4), None, None)
LineB3 == Line(Some("b"), Some(3), None, None)
\* "AQI=" is the bytes 1, 2
LineInline == Line(None, None, Some(<<"A", "Q", "I", "=">>), Some(<<1, 2>>))
\* a name, a size and a payload ("Aw==" is the byte 3)
LineBoth == Line(Some("a"), Some(3), Some(<<"A", "w", "=", "=">>), Some(<<3>>))
\* a name and a payload but no size ("/wQF" is the bytes 255, 4, 5)
LineNoSize == Line(Some("b"), None, Some(<<"/", "w", "Q", "F">>), Some(<<255, 4, 5>>))
\* neither name nor payload
LineOther == Line(None, Some(3), None, None)
\* a payload that is no base64 text
LineBadPayload == Line(None, None, Some(<<"A", "Q", "=">>), None)
\* a line that is no JSON record
LineMalformed == [json |-> FALSE, name |-> None, size |-> None, payload |-> None,
                  bytes |-> None]

FewLines == {LineA3, LineB3, LineInline, LineBoth}
LineTemplates ==
    {LineA3, LineA4, LineB3, LineInline, LineBoth, LineNoSize, LineOther,
     LineBadPayload, LineMalformed}

\* The most entries of a manifest and the most lines of a tarsplit
MaxEntries == 2
MaxLines == 3

Manifest(version, entries) ==
    [decodes |-> TRUE, version |-> version, entries |-> entries]
Tarsplit(lines) == [decodes |-> TRUE, lines |-> lines]
Undecodable == [decodes |-> FALSE, version |-> 0, entries |-> <<>>]
UndecodableLines == [decodes |-> FALSE, lines |-> <<>>]

\* The inputs: any manifest with few kinds of lines, any lines with the
\* manifests of regular files, other versions, and frames that do not decode
BuildInputs(m, t) ==
    \/ \E e \in SeqsUpTo(EntryTemplates, MaxEntries), l \in SeqsUpTo(FewLines, MaxLines) :
          m = Manifest(1, e) /\ t = Tarsplit(l)
    \/ \E e \in SeqsUpTo(CompleteEntries, MaxEntries),
          l \in SeqsUpTo(LineTemplates, MaxLines) :
          m = Manifest(1, e) /\ t = Tarsplit(l)
    \/ \E v \in {0, 2}, e \in SeqsUpTo({EntryA3}, MaxEntries),
          l \in SeqsUpTo({LineA3, LineB3, LineInline}, MaxLines) :
          m = Manifest(v, e) /\ t = Tarsplit(l)
    \/ m = Undecodable /\ t = Tarsplit(<<LineInline>>)
    \/ m = Manifest(1, <<EntryA3>>) /\ t = UndecodableLines

InitBuild ==
    /\ BuildInputs(manifestIn, tarsplitIn)
    /\ built = NotBuilt
    /\ MetaIdle
    /\ WriteIdle

\* A call of Stream::new_from_frames on the two frames
CallNewFromFrames ==
    /\ built = NotBuilt
    /\ built' = NewFromFrames(manifestIn, tarsplitIn)
    /\ UNCHANGED <<manifestIn, tarsplitIn>>
    /\ UNCHANGED metaVars
    /\ UNCHANGED writeVars

NextBuild == CallNewFromFrames

SpecBuild == InitBuild /\ [][NextBuild]_vars

----------------------------------------------------------------------------
(* Stream builder: claims *)

\* The entry has its size, digest, offset and endOffset
IsComplete(e) ==
    e.size # None /\ e.digest # None /\ e.offset # None /\ e.end_offset # None

\* The places, in the manifest, of the complete entries named name
CompleteAt(name) ==
    {i \in 1..Len(manifestIn.entries) :
        manifestIn.entries[i].name = name /\ IsComplete(manifestIn.entries[i])}

\* The name is in the lookup table
InTable(name) == CompleteAt(name) # {}

\* The entry stored under the name: the last complete one
TableEntry(name) ==
    manifestIn.entries[CHOOSE i \in CompleteAt(name) : \A j \in CompleteAt(name) : j <= i]

\* A named record (name and size present), an inline record (not named, with
\* a payload)
IsNamed(l) == l.json /\ l.name # None /\ l.size # None
IsInline(l) == l.json /\ ~IsNamed(l) /\ l.payload # None

\* Some named record of the tarsplit has a name that is not in the lookup
\* table, or a size that is not the size of the entry stored under its name
SomeRecordOffends ==
    \E i \in 1..Len(tarsplitIn.lines) :
        LET l == tarsplitIn.lines[i]
        IN  /\ IsNamed(l)
            /\ \/ ~InTable(Unwrap(l.name))
               \/ TableEntry(Unwrap(l.name)).size # l.size

\* C2: new_from_frames returns an error, and no Stream, whenever the manifest
\* version is not 1, or a named record's name is not in the lookup table, or a
\* named record's size differs from the manifest entry's size, wherever the
\* record sits
C2_MalformedRejected ==
    (/\ built # NotBuilt
     /\ \/ manifestIn.version # 1
        \/ SomeRecordOffends)
    => built.tag = "Err"

\* C2 witness: the third record has the wrong size, after an inline record
\* and a named record that are in order
C2_Witness ==
    /\ built.tag = "Err"
    /\ built.msg.kind = "size mismatch"
    /\ manifestIn.entries = <<EntryA3>>
    /\ tarsplitIn.lines = <<LineInline, LineA3, LineA4>>

\* The places of the records that are named or inline, in order
KeptLines ==
    SelectSeq([i \in 1..Len(tarsplitIn.lines) |-> i],
              LAMBDA i : IsNamed(tarsplitIn.lines[i]) \/ IsInline(tarsplitIn.lines[i]))

\* The chunk is what the record yields
ChunkOfRecord(chunk, l) ==
    IF IsNamed(l)
    THEN LET e == TableEntry(Unwrap(l.name))
         IN  /\ InTable(Unwrap(l.name))
             /\ chunk.kind = "External"
             /\ Len(chunk.refs) = 1
             /\ Some(chunk.refs[1].range.start) = e.offset
             /\ Some(chunk.refs[1].range.end) = e.end_offset
             /\ Some(chunk.refs[1].digest) = e.digest
             /\ Some(chunk.refs[1].size) = e.size
             /\ e.size = l.size
    ELSE /\ chunk.kind = "Inline"
         /\ Some(chunk.data) = l.bytes

\* C9: when new_from_frames succeeds, the k-th chunk comes from the k-th
\* record that is named or inline: External with the one reference (range,
\* digest, size) of the manifest entry stored under the record's name, whose
\* size is the record's size, or Inline with the decoded payload; every other
\* record yields no chunk
C9_OrderPreservingImage ==
    built.tag = "Ok" =>
        /\ Len(built.chunks) = Len(KeptLines)
        /\ \A k \in 1..Len(KeptLines) :
              ChunkOfRecord(built.chunks[k], tarsplitIn.lines[KeptLines[k]])

\* C9 witness: an inline record, a record that yields nothing and a named
\* record have given two chunks
C9_Witness ==
    /\ built.tag = "Ok"
    /\ manifestIn.entries = <<EntryA3, EntryB3>>
    /\ tarsplitIn.lines = <<LineInline, LineOther, LineB3>>
    /\ Len(built.chunks) = 2

\* How many of the first i records are named or inline: the place, among the
\* chunks, of the chunk of record i when it is one of them
ChunkPlace(i) ==
    Cardinality({j \in 1..i : IsNamed(tarsplitIn.lines[j]) \/ IsInline(tarsplitIn.lines[j])})

\* The record yields the External chunk of the entry stored under its name
YieldsExternal(i) ==
    LET l == tarsplitIn.lines[i]
        chunk == built.chunks[ChunkPlace(i)]
    IN  /\ InTable(Unwrap(l.name))
        /\ ChunkPlace(i) <= Len(built.chunks)
        /\ chunk.kind = "External"
        /\ Len(chunk.refs) = 1
        /\ Some(chunk.refs[1].digest) = TableEntry(Unwrap(l.name)).digest
        /\ Some(chunk.refs[1].size) = l.size

\* C11 as amended: a record that carries a name, a size and a payload is
\* treated as a named record: when construction succeeds it has yielded the
\* External chunk of the manifest entry (never an Inline chunk holding its
\* payload), and when its name is not in the lookup table or its size is not
\* the entry's, construction fails
C11_NamedTakesPrecedence ==
    built # NotBuilt =>
        \A i \in 1..Len(tarsplitIn.lines) :
            LET l == tarsplitIn.lines[i]
            IN  (l.json /\ l.name # None /\ l.size # None /\ l.payload # None) =>
                    /\ built.tag = "Ok" => YieldsExternal(i)
                    /\ (\/ ~InTable(Unwrap(l.name))
                        \/ TableEntry(Unwrap(l.name)).size # l.size)
                       => built.tag = "Err"

\* C11 witness: a record with a name, a size and a payload, after an inline
\* record, has yielded the second chunk, an External one
C11_Witness ==
    /\ built.tag = "Ok"
    /\ manifestIn.entries = <<EntryA3>>
    /\ tarsplitIn.lines = <<LineInline, LineBoth>>
    /\ built.chunks[2].kind = "External"

\* C11 as claimed: every record that carries a name and a payload, with a
\* size or without, is treated as a named record
C11_AsClaimed ==
    built # NotBuilt =>
        \A i \in 1..Len(tarsplitIn.lines) :
            LET l == tarsplitIn.lines[i]
            IN  (l.json /\ l.name # None /\ l.payload # None) =>
                    /\ built.tag = "Ok" => YieldsExternal(i)
                    /\ ~InTable(Unwrap(l.name)) => built.tag = "Err"


\* The manifest without the entries that lack a field
CompleteOnly == SelectSeq(manifestIn.entries, IsComplete)

\* Some entry of the manifest has the name, and none of them is complete
OnlyDroppedEntries(name) ==
    /\ \E k \in 1..Len(manifestIn.entries) : manifestIn.entries[k].name = name
    /\ ~InTable(name)

\* The record is read and woven in without an error
RecordPasses(l) ==
    /\ l.json
    /\ l.payload # None => l.bytes # None
    /\ IsNamed(l) => (/\ InTable(Unwrap(l.name))
                      /\ TableEntry(Unwrap(l.name)).size = l.size)

\* The records in front of record i pass
PassesBefore(i) == \A j \in 1..(i - 1) : RecordPasses(tarsplitIn.lines[j])

\* The reference is that of some complete entry of the manifest
FromCompleteEntry(ref) ==
    \E k \in 1..Len(manifestIn.entries) :
        LET e == manifestIn.entries[k]
        IN  /\ IsComplete(e)
            /\ e.digest = Some(ref.digest)
            /\ e.size = Some(ref.size)
            /\ e.offset = Some(ref.range.start)
            /\ e.end_offset = Some(ref.range.end)

\* C12: a manifest entry that lacks its size, digest, offset or endOffset is
\* dropped without error (the outcome is that of the manifest without it, and
\* records that all pass give a Stream) and is never the reference of an
\* External chunk; a named record whose name only such entries carry fails
\* construction, with the `missing from manifest` error of that name when the
\* records in front of it pass
C12_IncompleteEntriesDropped ==
    (built # NotBuilt /\ manifestIn.decodes /\ manifestIn.version = 1
     /\ tarsplitIn.decodes) =>
        /\ built = NewFromFrames(Manifest(1, CompleteOnly), tarsplitIn)
        /\ PassesBefore(Len(tarsplitIn.lines) + 1) => built.tag = "Ok"
        /\ built.tag = "Ok" =>
              \A k \in 1..Len(built.chunks) :
                  \A j \in 1..Len(built.chunks[k].refs) :
                      FromCompleteEntry(built.chunks[k].refs[j])
        /\ \A i \in 1..Len(tarsplitIn.lines) :
              LET l == tarsplitIn.lines[i]
              IN  (IsNamed(l) /\ OnlyDroppedEntries(Unwrap(l.name))) =>
                      /\ built.tag = "Err"
                      /\ PassesBefore(i) =>
                            built.msg = [kind |-> "missing from manifest",
                                         name |-> Unwrap(l.name)]

\* C12 witness: the only entry of "a" lacks its digest, and the named record
\* of "a", after an inline record, has failed construction
C12_Witness ==
    /\ built.tag = "Err"
    /\ built.msg.kind = "missing from manifest"
    /\ manifestIn.entries = <<[EntryA4 EXCEPT !.digest = None], EntryB3>>
    /\ tarsplitIn.lines = <<LineInline, LineB3, LineA3>>

\* Several entries of the manifest have the name
Duplicated(name) ==
    \E k1, k2 \in 1..Len(manifestIn.entries) :
        /\ k1 < k2
        /\ manifestIn.entries[k1].name = name
        /\ manifestIn.entries[k2].name = name

\* The places of the entries that are the last complete one of their name
LastCompletePlaces ==
    {k \in 1..Len(manifestIn.entries) :
        /\ IsComplete(manifestIn.entries[k])
        /\ \A j \in CompleteAt(manifestIn.entries[k].name) : j <= k}

\* The manifest with, of each name, the last complete entry alone
LastCompleteOnly ==
    [i \in 1..Cardinality(LastCompletePlaces) |->
        manifestIn.entries[CHOOSE k \in LastCompletePlaces :
                              Cardinality({j \in LastCompletePlaces : j <= k}) = i]]

\* C13: when several manifest entries share a name, construction does not
\* fail for that (the outcome is that of the manifest holding, of each name,
\* the last complete entry alone); a named record of such a name, reached with
\* the records in front of it passing, fails with `size mismatch` when its
\* size is not that of the last complete entry of the name, and otherwise
\* yields an External chunk with the range, digest and size of that entry
C13_LastCompleteEntryWins ==
    (built # NotBuilt /\ manifestIn.decodes /\ manifestIn.version = 1
     /\ tarsplitIn.decodes) =>
        /\ built = NewFromFrames(Manifest(1, LastCompleteOnly), tarsplitIn)
        /\ \A i \in 1..Len(tarsplitIn.lines) :
              LET l == tarsplitIn.lines[i]
                  name == Unwrap(l.name)
              IN  (IsNamed(l) /\ Duplicated(name) /\ InTable(name)) =>
                      /\ (PassesBefore(i) /\ l.size # TableEntry(name).size) =>
                            built = Err([kind |-> "size mismatch", name |-> name])
                      /\ built.tag = "Ok" =>
                            /\ l.size = TableEntry(name).size
                            /\ ChunkPlace(i) <= Len(built.chunks)
                            /\ ChunkOfRecord(built.chunks[ChunkPlace(i)], l)

\* C13 witness: two complete entries of "a", of sizes 3 and 4, and the
\* record of "a" with size 4 has become the External chunk of the second
C13_Witness ==
    /\ built.tag = "Ok"
    /\ manifestIn.entries = <<EntryA3, EntryA4>>
    /\ tarsplitIn.lines = <<LineInline, LineA4>>
    /\ built.chunks[2].kind = "External"
    /\ built.chunks[2].refs[1].digest = Unwrap(EntryA4.digest)

----------------------------------------------------------------------------
(* Stream driver: inputs *)

RefA == ContentReference(0, 5, "d1", 3)
RefB == ContentReference(5, 9, "d2", 4)
Refs == {RefA, RefB}

\* The chunks a Stream is made of: Inline with and without bytes, External
\* with no, one, two different and two equal references
ChunkTemplates ==
    {Inline(<<1, 2>>), Inline(<<>>), External(<<>>), External(<<RefA>>),
     External(<<RefA, RefB>>), External(<<RefB, RefB>>)}

\* The most chunks of a Stream
MaxChunks == 3

\* The resolvers: the decompressed bytes of each reference
Resolvers ==
    {[r \in Refs |-> IF r = RefA THEN <<10, 11, 12>> ELSE <<20, 21, 22, 23>>],
     [r \in Refs |-> IF r = RefA THEN <<>> ELSE <<7>>]}

InitWrite ==
    /\ stream \in SeqsUpTo(ChunkTemplates, MaxChunks)
    /\ resolver \in Resolvers
    /\ resolverMayFail \in BOOLEAN
    /\ sinkMayFail \in BOOLEAN
    /\ wpc = "loop"
    /\ ci = 1
    /\ ri = 1
    /\ pending = <<>>
    /\ wret = "Running"
    /\ sink = <<>>
    /\ calls = <<>>
    /\ MetaIdle
    /\ BuildIdle

NextWrite == WriteInline \/ Resolve \/ WriteResolved \/ NextChunk \/ ReturnOk

SpecWrite == InitWrite /\ [][NextWrite]_vars

----------------------------------------------------------------------------
(* Stream driver: claims *)

\* The bytes of the references, as the resolver gives them, one after another
RECURSIVE ConcatResolved(_)
ConcatResolved(refs) ==
    IF Len(refs) = 0 THEN <<>>
    ELSE resolver[refs[1]] \o ConcatResolved(SubSeq(refs, 2, Len(refs)))

\* The bytes the chunks stand for
RECURSIVE ExpectedOutput(_)
ExpectedOutput(chunks) ==
    IF Len(chunks) = 0 THEN <<>>
    ELSE LET last == chunks[Len(chunks)]
         IN  ExpectedOutput(SubSeq(chunks, 1, Len(chunks) - 1))
             \o (IF last.kind = "Inline" THEN last.data ELSE ConcatResolved(last.refs))

\* The references passed to the resolver, in the order of the calls
ResolveLog ==
    LET rc == SelectSeq(calls, LAMBDA c : c.op = "resolve")
    IN  [i \in 1..Len(rc) |-> Unwrap(rc[i].ref)]

\* How often the reference occurs in the External chunks of the Stream
Occurrences(r) ==
    Cardinality(UNION {{<<c, j>> : j \in {k \in 1..Len(stream[c].refs) :
                                              stream[c].refs[k] = r}} :
                       c \in {d \in 1..Len(stream) : stream[d].kind = "External"}})

\* How often the resolver was called for the reference
ResolveCount(r) ==
    Cardinality({i \in 1..Len(calls) : calls[i].op = "resolve" /\ calls[i].ref = Some(r)})

\* C1: with a resolver and a sink that never fail, write_to does not return an
\* error and does return; when it has returned Ok the sink holds the bytes of
\* the Inline chunks and the resolved bytes of the references of the External
\* chunks, in chunk order, and the resolver was called once per occurrence of
\* a reference (equal references each time); no chunks, no bytes and no call
C1_WriteToConcatenates ==
    (~resolverMayFail /\ ~sinkMayFail) =>
        /\ wret \in {"Running", "Ok"}
        /\ wret = "Running" => ENABLED NextWrite
        /\ wret = "Ok" =>
              /\ sink = ExpectedOutput(stream)
              /\ \A r \in Refs : ResolveCount(r) = Occurrences(r)
              /\ stream = <<>> => (sink = <<>> /\ calls = <<>>)

\* C1 witness: an Inline chunk and two External chunks, three of the four
\* references equal, written out in full
C1_Witness ==
    /\ wret = "Ok"
    /\ ~resolverMayFail
    /\ ~sinkMayFail
    /\ stream = <<Inline(<<1, 2>>), External(<<RefA, RefB>>), External(<<RefB, RefB>>)>>
    /\ sink = <<1, 2, 10, 11, 12, 20, 21, 22, 23, 20, 21, 22, 23, 20, 21, 22, 23>>
    /\ ResolveCount(RefB) = 3

\* C7: a failed call of the resolver or of the sink is the last call made, and
\* write_to has returned its error; after a failed resolve call the sink holds
\* the bytes of the chunks and references in front of the failing reference,
\* and nothing else
C7_StopsAtFirstFailure ==
    /\ \A i \in 1..Len(calls) :
          ~calls[i].ok =>
              /\ i = Len(calls)
              /\ wpc = "done"
              /\ wret = (IF calls[i].op = "resolve" THEN "ErrResolve" ELSE "ErrSink")
    /\ wret \in {"ErrResolve", "ErrSink"} =>
          (calls # <<>> /\ ~calls[Len(calls)].ok)
    /\ wret = "ErrResolve" =>
          /\ calls[Len(calls)] = ResolveCall(stream[ci].refs[ri], FALSE)
          /\ sink = ExpectedOutput(SubSeq(stream, 1, ci - 1))
                      \o ConcatResolved(SubSeq(stream[ci].refs, 1, ri - 1))

\* C7 witness: the resolver has failed on the second reference of the second
\* chunk of three
C7_Witness ==
    /\ wret = "ErrResolve"
    /\ stream = <<Inline(<<1, 2>>), External(<<RefA, RefB>>), External(<<RefB, RefB>>)>>
    /\ ci = 2
    /\ ri = 2
    /\ sink = <<1, 2, 10, 11, 12>>

\* C8: the references of Stream::references() are the references passed to
\* the resolver during a write_to that has run to completion, in the same
\* order and as often
C8_ReferencesAreResolveOrder ==
    wret = "Ok" => ResolveLog = References(stream)

\* C8 witness: a write_to of two External chunks around an Inline one has run
\* to completion
C8_Witness ==
    /\ wret = "Ok"
    /\ stream = <<External(<<RefA, RefB>>), Inline(<<1, 2>>), External(<<RefB, RefB>>)>>
    /\ ResolveLog = <<RefA, RefB, RefB, RefB>>

====
